---- MODULE Spec2Model ----
(***************************************************************************)
(* Model of gpt.py, the bootstrap of the gpt-cli chat client: the          *)
(* uncaught-exception hook, init_assistant, parse_args and main.           *)
(*                                                                         *)
(* Python's None is modelled by the empty sequence and a present value x   *)
(* by <<x>>, so that `is not None` and truthiness are different tests.     *)
(* Floats (temperature, top_p) are modelled in tenths: 7 stands for 0.7.   *)
(* AssistantConfig objects live in the two registries and are handled by   *)
(* reference, as Python objects are: a reference names the registry and    *)
(* the key of the object it points to.                                     *)
(***************************************************************************)
EXTENDS Integers, Sequences, FiniteSets, TLC

\* ------------------------------------------------------------- bounds
\* CLI temperatures range over 0..MaxTemp tenths, CLI top_p over 0..MaxTopP.
MaxTemp == 1
MaxTopP == 1

\* ------------------------------------------------------------- values
None == <<>>
Some(x) == <<x>>
Opt(S) == {None} \cup {Some(x) : x \in S}

\* bool(x) of an optional string: None and "" are falsy
Truthy(x) == x # None /\ x[1] # ""

BuiltinNames == {"dev", "general"}
\* names a persisted config may define: one shadows a built-in, one is new
CustomNames == {"dev", "writer"}
\* what the user may type as the positional argument
TypedNames == {"dev", "general", "writer", "ghost"}
LogLevelChoices == {"DEBUG", "INFO", "WARNING", "ERROR", "CRITICAL"}
TypedLevels == {"CRITICAL", "BOGUS"}
CliModels == {"gpt-4"}
ApiKeys == {None, Some(""), Some("sk-key")}

\* gptcli.assistant.DEFAULT_ASSISTANTS as it stands when the module is loaded
DEFAULT_ASSISTANTS ==
  [n \in BuiltinNames |->
     [model |-> Some("gpt-3.5-turbo"), temperature |-> Some(7), top_p |-> Some(10),
      messages |-> IF n = "dev" THEN "builtin-dev" ELSE "builtin-general"]]

\* the custom AssistantConfig a config file defines under name n
CustomConfig(n) ==
  [model |-> Some("m1"), temperature |-> IF n = "dev" THEN None ELSE Some(5),
   top_p |-> None, messages |-> IF n = "dev" THEN "custom-dev" ELSE "custom-writer"]

\* gptcli.config.GptCliConfig(): the defaults used when ~/.gptrc is absent
GptCliConfig ==
  [default_assistant |-> "general", markdown |-> TRUE, log_file |-> None,
   log_level |-> "INFO", api_key |-> None, assistants |-> <<>>]

\* the records read_yaml_config can return for a well-formed ~/.gptrc
YamlConfigs ==
  { [default_assistant |-> d, markdown |-> m, log_file |-> lf,
     log_level |-> "INFO", api_key |-> k,
     assistants |-> [n \in C |-> CustomConfig(n)]] :
       d \in {"general", "writer"}, m \in BOOLEAN, lf \in Opt({"gpt.log"}),
       k \in ApiKeys, C \in SUBSET CustomNames }

\* sys.argv[1:] after tokenisation: what the user supplied for each argument
Argvs ==
  [assistant_name : Opt(TypedNames), no_markdown : BOOLEAN,
   model : Opt(CliModels), temperature : Opt(0..MaxTemp), top_p : Opt(0..MaxTopP),
   log_file : Opt({"cli.log"}), log_level : Opt(TypedLevels)]

VARIABLES
  pc,            \* position of the process: the step of main about to run, or how it ended
  isfile,        \* os.path.isfile(config_path): None until main has asked
  argv,          \* history: the command line parse_args read
  config,        \* main's `config`
  args,          \* main's `args` (the argparse Namespace)
  builtin,       \* the objects of gptcli.assistant.DEFAULT_ASSISTANTS
  before,        \* history: both registries as they were when init_assistant was entered
  assistant,     \* main's `assistant`: None or <<[config |-> reference]>>
  api_key,       \* openai.api_key
  session,       \* main's `session`: None or <<[assistant, markdown]>>
  loops,         \* number of calls of session.loop()
  logging,       \* root logger: configured?, and the records logged per severity
  stdout,        \* lines printed
  handled,       \* history: the calls exception_handler made, in order
  exit,          \* process exit status: None while running
  steps          \* history: the steps of main in the order they began

vars == <<pc, isfile, argv, config, args, builtin, before, assistant, api_key,
          session, loops, logging, stdout, handled, exit, steps>>

\* ------------------------------------------------- gpt.py: init_assistant
Ref(reg, n) == [reg |-> reg, name |-> n]

\* the object a reference points to, in the registries regs = [builtin, custom]
Deref(r, regs) == IF r.reg = "custom" THEN regs.custom[r.name] ELSE regs.builtin[r.name]

\* obj.field = v on the object r points to: the registry holding it sees the change
SetAttr(regs, r, fld, v) ==
  IF r.reg = "custom"
    THEN [regs EXCEPT !.custom[r.name] = [@ EXCEPT ![fld] = v]]
    ELSE [regs EXCEPT !.builtin[r.name] = [@ EXCEPT ![fld] = v]]

\* mutant of DictMerge: the first mapping wins on a key both have
DictMerge_first_wins(f, g) ==
  [n \in DOMAIN f \cup DOMAIN g |-> IF n \in DOMAIN f THEN f[n] ELSE g[n]]

\* {**f, **g}: the keys of both, g's value where both have the key
DictMerge(f, g) ==
  [n \in DOMAIN f \cup DOMAIN g |-> IF n \in DOMAIN g THEN g[n] ELSE f[n]]

\* all_assistants = {**DEFAULT_ASSISTANTS, **custom_assistants}: a new dict
\* holding the registries' own objects
all_assistants(regs) ==
  DictMerge([n \in DOMAIN regs.builtin |-> Ref("builtin", n)],
            [n \in DOMAIN regs.custom |-> Ref("custom", n)])

\* mutant of init_assistant: `if args.temperature:` instead of `is not None`
init_assistant_truthy(a, regs) ==
  LET all == all_assistants(regs)
  IN IF a.assistant_name \notin DOMAIN all
       THEN [raised |-> TRUE, regs |-> regs, result |-> None]
       ELSE LET assistant_config == all[a.assistant_name]
                r1 == IF a.temperature # None /\ a.temperature[1] # 0
                        THEN SetAttr(regs, assistant_config, "temperature", a.temperature)
                        ELSE regs
                r2 == IF a.model # None
                        THEN SetAttr(r1, assistant_config, "model", a.model)
                        ELSE r1
                r3 == IF a.top_p # None
                        THEN SetAttr(r2, assistant_config, "top_p", a.top_p)
                        ELSE r2
            IN [raised |-> FALSE, regs |-> r3,
                result |-> Some([config |-> assistant_config])]

\* init_assistant(args, custom_assistants): the registries afterwards and the
\* Assistant returned, or raised = TRUE for the KeyError of the lookup
init_assistant(a, regs) ==
  LET all == all_assistants(regs)
  IN IF a.assistant_name \notin DOMAIN all
       THEN [raised |-> TRUE, regs |-> regs, result |-> None]
       ELSE LET assistant_config == all[a.assistant_name]
                r1 == IF a.temperature # None
                        THEN SetAttr(regs, assistant_config, "temperature", a.temperature)
                        ELSE regs
                r2 == IF a.model # None
                        THEN SetAttr(r1, assistant_config, "model", a.model)
                        ELSE r1
                r3 == IF a.top_p # None
                        THEN SetAttr(r2, assistant_config, "top_p", a.top_p)
                        ELSE r2
            IN [raised |-> FALSE, regs |-> r3,
                result |-> Some([config |-> assistant_config])]

\* ----------------------------------------------------- gpt.py: parse_args
\* mutant of NameChoices: the `choices` restriction is left out
NameChoices_unchecked(cfg) == TypedNames \cup {cfg.default_assistant}

\* choices=["dev", "general", *config.assistants.keys()]
NameChoices(cfg) == {"dev", "general"} \cup DOMAIN cfg.assistants

\* mutant of MarkdownArg: action="store_true"
MarkdownArg_store_true(given, cfg) == IF given THEN TRUE ELSE cfg.markdown

\* action="store_false", dest="markdown", default=config.markdown
MarkdownArg(given, cfg) == IF given THEN FALSE ELSE cfg.markdown

\* parse_args(config) on the command line av: ok = FALSE is argparse's usage
\* error (exit status 2); a string default of a nargs="?" positional is
\* checked against the choices like a typed value, an option's default is not
parse_args(cfg, av) ==
  LET name == IF av.assistant_name # None THEN av.assistant_name[1]
                                          ELSE cfg.default_assistant
  IN [ok |-> /\ name \in NameChoices(cfg)
             /\ (av.log_level # None => av.log_level[1] \in LogLevelChoices),
      ns |-> [assistant_name |-> name,
              markdown |-> MarkdownArg(av.no_markdown, cfg),
              model |-> av.model,
              temperature |-> av.temperature,
              top_p |-> av.top_p,
              log_file |-> IF av.log_file # None THEN av.log_file ELSE cfg.log_file,
              log_level |-> IF av.log_level # None THEN av.log_level[1]
                                                  ELSE cfg.log_level]]

\* -------------------------------------------------------- logging module
LevelNo(l) ==
  CASE l = "DEBUG" -> 10 [] l = "INFO" -> 20 [] l = "WARNING" -> 30
    [] l = "ERROR" -> 40 [] l = "CRITICAL" -> 50

\* the root logger before basicConfig: no handler, level WARNING
RootLogger == [configured |-> FALSE, level |-> "WARNING", info |-> 0, error |-> 0]

\* logging.info / logging.exception on the root logger: a record is made only
\* when the severity is enabled at the logger's level
LogCall(lg, severity) ==
  IF LevelNo(severity) >= LevelNo(lg.level)
    THEN IF severity = "ERROR" THEN [lg EXCEPT !.error = @ + 1]
                               ELSE [lg EXCEPT !.info = @ + 1]
    ELSE lg

\* ------------------------------------------------------------ gpt.py: main
ApologyMsg == "An uncaught exception occurred. Please report this issue on GitHub."
NoKeyMsg == "No API key found. Please set the OPENAI_API_KEY environment variable ..."

\* mutant of main_order: the credential is validated before the Assistant is built
main_order_credential_first ==
  <<"load_config", "parse_args", "configure_logging", "credential",
    "init_assistant", "session">>

\* the statements of main, in program order
main_order ==
  <<"load_config", "parse_args", "configure_logging", "init_assistant",
    "credential", "session">>

\* where control goes when step s completes normally
StepAfter(s) ==
  LET i == CHOOSE k \in 1..Len(main_order) : main_order[k] = s
  IN IF i = Len(main_order) THEN "running" ELSE main_order[i + 1]

\* mutant of HasCredential: `if config.api_key is not None:`
HasCredential_not_none(cfg) == cfg.api_key # None

\* mutant of HasCredential: the check is left out
HasCredential_unchecked(cfg) == TRUE

\* `if config.api_key:`
HasCredential(cfg) == Truthy(cfg.api_key)

\* mutant of ChatSession: the session gets the default assistant, not the built one
ChatSession_default_assistant(asst, ns) ==
  [assistant |-> Some([config |-> Ref("builtin", "general")]), markdown |-> ns.markdown]

\* ChatSession(assistant=assistant, markdown=args.markdown)
ChatSession(asst, ns) == [assistant |-> asst, markdown |-> ns.markdown]

\* mutant of exception_handler_calls: the original hook is not called
exception_handler_calls_swallow == <<"logging.exception", "print">>

\* what exception_handler does, in order
exception_handler_calls == <<"logging.exception", "print", "default_exception_handler">>

Init ==
  /\ pc = main_order[1]
  /\ isfile = None
  /\ argv = None
  /\ config = None
  /\ args = None
  /\ builtin = DEFAULT_ASSISTANTS
  /\ before = None
  /\ assistant = None
  /\ api_key = None
  /\ session = None
  /\ loops = 0
  /\ logging = RootLogger
  /\ stdout = <<>>
  /\ handled = <<>>
  /\ exit = None
  /\ steps = <<>>

Begin(s) == pc = s /\ steps' = Append(steps, s)

\* config = GptCliConfig(): ~/.gptrc is not a file
LoadDefaultConfig ==
  /\ Begin("load_config")
  /\ isfile' = Some(FALSE)
  /\ config' = Some(GptCliConfig)
  /\ pc' = StepAfter("load_config")
  /\ UNCHANGED <<argv, args, builtin, before, assistant, api_key, session, loops,
                 logging, stdout, handled, exit>>

\* config = read_yaml_config(config_path): ~/.gptrc is a well-formed file
ReadYamlConfig ==
  /\ Begin("load_config")
  /\ isfile' = Some(TRUE)
  /\ \E c \in YamlConfigs : config' = Some(c)
  /\ pc' = StepAfter("load_config")
  /\ UNCHANGED <<argv, args, builtin, before, assistant, api_key, session, loops,
                 logging, stdout, handled, exit>>

\* read_yaml_config raises on a malformed file; main does not catch it
ReadYamlConfigRaises ==
  /\ Begin("load_config")
  /\ isfile' = Some(TRUE)
  /\ pc' = "uncaught"
  /\ UNCHANGED <<argv, config, args, builtin, before, assistant, api_key, session,
                 loops, logging, stdout, handled, exit>>

\* args = parse_args(config); a usage error ends the process with status 2
ParseArgs ==
  /\ Begin("parse_args")
  /\ \E av \in Argvs :
       LET r == parse_args(config[1], av)
       IN /\ argv' = Some(av)
          /\ IF r.ok
               THEN /\ args' = Some(r.ns)
                    /\ pc' = StepAfter("parse_args")
                    /\ exit' = exit
               ELSE /\ args' = args
                    /\ pc' = "exited"
                    /\ exit' = Some(2)
  /\ UNCHANGED <<isfile, config, builtin, before, assistant, api_key, session, loops,
                 logging, stdout, handled>>

\* `if args.log_file is not None:` is false
SkipLogging ==
  /\ Begin("configure_logging")
  /\ args[1].log_file = None
  /\ pc' = StepAfter("configure_logging")
  /\ UNCHANGED <<isfile, argv, config, args, builtin, before, assistant, api_key,
                 session, loops, logging, stdout, handled, exit>>

\* logging.basicConfig(filename=args.log_file, level=args.log_level, ...)
ConfigureLogging ==
  /\ Begin("configure_logging")
  /\ args[1].log_file # None
  /\ logging' = [logging EXCEPT !.configured = TRUE, !.level = args[1].log_level]
  /\ pc' = StepAfter("configure_logging")
  /\ UNCHANGED <<isfile, argv, config, args, builtin, before, assistant, api_key,
                 session, loops, stdout, handled, exit>>

\* logging.basicConfig cannot open the log file: OSError, before any handler
\* or level is set
ConfigureLoggingRaises ==
  /\ Begin("configure_logging")
  /\ args[1].log_file # None
  /\ pc' = "uncaught"
  /\ UNCHANGED <<isfile, argv, config, args, builtin, before, assistant, api_key,
                 session, loops, logging, stdout, handled, exit>>

\* assistant = init_assistant(args, config.assistants); logging.info(...)
BuildAssistant ==
  /\ Begin("init_assistant")
  /\ LET regs == [builtin |-> builtin, custom |-> config[1].assistants]
         r == init_assistant(args[1], regs)
     IN /\ before' = Some(regs)
        /\ builtin' = r.regs.builtin
        /\ config' = Some([config[1] EXCEPT !.assistants = r.regs.custom])
        /\ assistant' = r.result
        /\ IF r.raised
             THEN pc' = "uncaught" /\ logging' = logging
             ELSE pc' = StepAfter("init_assistant") /\ logging' = LogCall(logging, "INFO")
  /\ UNCHANGED <<isfile, argv, args, api_key, session, loops, stdout, handled, exit>>

\* `if config.api_key: openai.api_key = config.api_key`, else print and sys.exit(1)
ValidateCredential ==
  /\ Begin("credential")
  /\ IF HasCredential(config[1])
       THEN /\ api_key' = config[1].api_key
            /\ pc' = StepAfter("credential")
            /\ UNCHANGED <<stdout, exit>>
       ELSE /\ stdout' = Append(stdout, NoKeyMsg)
            /\ exit' = Some(1)
            /\ pc' = "exited"
            /\ UNCHANGED api_key
  /\ UNCHANGED <<isfile, argv, config, args, builtin, before, assistant, session,
                 loops, logging, handled>>

\* session = ChatSession(...); session.loop() is entered
StartSession ==
  /\ Begin("session")
  /\ session' = Some(ChatSession(assistant, args[1]))
  /\ loops' = loops + 1
  /\ pc' = StepAfter("session")
  /\ UNCHANGED <<isfile, argv, config, args, builtin, before, assistant, api_key,
                 logging, stdout, handled, exit>>

\* session.loop() returns: main returns and the process ends with status 0
SessionReturns ==
  /\ pc = "running"
  /\ pc' = "done"
  /\ exit' = Some(0)
  /\ UNCHANGED <<isfile, argv, config, args, builtin, before, assistant, api_key,
                 session, loops, logging, stdout, handled, steps>>

\* session.loop() raises
SessionRaises ==
  /\ pc = "running"
  /\ pc' = "uncaught"
  /\ UNCHANGED <<isfile, argv, config, args, builtin, before, assistant, api_key,
                 session, loops, logging, stdout, handled, exit, steps>>

\* sys.excepthook = exception_handler, called by the interpreter for the
\* uncaught exception; the process then ends with status 1
exception_handler ==
  /\ pc = "uncaught"
  /\ LET calls == exception_handler_calls
         logged[k \in 0..Len(calls)] ==
           IF k = 0 THEN logging
           ELSE IF calls[k] = "logging.exception" THEN LogCall(logged[k - 1], "ERROR")
                ELSE logged[k - 1]
         printed[k \in 0..Len(calls)] ==
           IF k = 0 THEN stdout
           ELSE IF calls[k] = "print" THEN Append(printed[k - 1], ApologyMsg)
                ELSE printed[k - 1]
     IN /\ logging' = logged[Len(calls)]
        /\ stdout' = printed[Len(calls)]
        /\ handled' = handled \o calls
  /\ pc' = "crashed"
  /\ exit' = Some(1)
  /\ UNCHANGED <<isfile, argv, config, args, builtin, before, assistant, api_key,
                 session, loops, steps>>

Next ==
  \/ LoadDefaultConfig
  \/ ReadYamlConfig
  \/ ReadYamlConfigRaises
  \/ ParseArgs
  \/ SkipLogging
  \/ ConfigureLogging
  \/ ConfigureLoggingRaises
  \/ BuildAssistant
  \/ ValidateCredential
  \/ StartSession
  \/ SessionReturns
  \/ SessionRaises
  \/ exception_handler

Spec == Init /\ [][Next]_vars

\* ------------------------------------------------------------- properties
OverrideFields == {"model", "temperature", "top_p"}

\* both registries as they are now
RegsNow == [builtin |-> builtin, custom |-> config[1].assistants]

\* the AssistantConfig the built Assistant owns, as it is now
AssistantConfigNow == Deref(assistant[1].config, RegsNow)

\* the entry the resolved name had when init_assistant was entered
BaseEntry ==
  IF args[1].assistant_name \in DOMAIN before[1].custom
    THEN before[1].custom[args[1].assistant_name]
    ELSE before[1].builtin[args[1].assistant_name]

\* the name parse_args resolves: the typed one, else the config's default
ResolvedName ==
  IF argv[1].assistant_name # None THEN argv[1].assistant_name[1]
                                   ELSE config[1].default_assistant

AllowedNames == {"dev", "general"} \cup DOMAIN config[1].assistants

LastStep == steps[Len(steps)]

Count(seq, x) == Cardinality({i \in 1..Len(seq) : seq[i] = x})

\* C1: once the Assistant is built, each of model, temperature and top_p of its
\* config equals the CLI value when one was given (0 included) and the base
\* entry's original value when none was given, independently per field.
C1_OverridePerField ==
  assistant # None =>
    \A f \in OverrideFields :
      AssistantConfigNow[f] = IF argv[1][f] # None THEN argv[1][f] ELSE BaseEntry[f]

\* C1 witness: temperature 0 was given and no model, on a base whose temperature
\* is not 0: one field overridden by a falsy value, another inherited.
C1_Witness ==
  /\ assistant # None
  /\ argv[1].temperature = Some(0)
  /\ argv[1].model = None
  /\ BaseEntry.temperature = Some(7)
  /\ AssistantConfigNow.temperature = Some(0)
  /\ AssistantConfigNow.model = BaseEntry.model

\* C2: a resolved name outside {"dev","general"} and the custom keys ends the
\* process with a non-zero status and no Assistant; a name inside it is accepted
\* (when the rest of the command line is valid); and the name init_assistant
\* looks up is always a key of the merged table, so an Assistant comes back.
C2_NameValidated ==
  /\ argv # None =>
       /\ ResolvedName \notin AllowedNames =>
            /\ pc = "exited" /\ exit # None /\ exit # Some(0)
            /\ assistant = None /\ before = None
       /\ (/\ ResolvedName \in AllowedNames
           /\ (argv[1].log_level # None => argv[1].log_level[1] \in LogLevelChoices)) =>
            /\ args # None
            /\ args[1].assistant_name = ResolvedName
  /\ before # None =>
       /\ args[1].assistant_name \in DOMAIN before[1].builtin \cup DOMAIN before[1].custom
       /\ assistant # None
       /\ LastStep = "init_assistant" => pc = "credential"

\* C2 witness: a name only the custom mapping defines was typed, accepted and
\* looked up.
C2_Witness ==
  /\ assistant # None
  /\ argv[1].assistant_name = Some("writer")
  /\ assistant[1].config = Ref("custom", "writer")

\* C3 as stated: without a config file the process always ends with status 1
\* and the instructional message printed, whatever the arguments.
C3_AlwaysExitOne ==
  (isfile = Some(FALSE) /\ exit # None) =>
    (exit = Some(1) /\ Count(stdout, NoKeyMsg) = 1)

\* C3 amended: without a config file the defaults are used and there is no
\* credential; no session is ever built; once the credential step is reached
\* (the arguments resolved and logging set up) the process prints the message and
\* exits with status 1; it ends otherwise only by a usage error (status 2) or by
\* the crash of the logging setup.
C3_NoFileExitsAtCredential ==
  isfile = Some(FALSE) =>
    /\ config[1].api_key = None
    /\ DOMAIN config[1].assistants = {}
    /\ session = None /\ loops = 0 /\ pc \notin {"session", "running", "done"}
    /\ Count(steps, "credential") = 1 =>
         /\ pc = "exited" /\ exit = Some(1) /\ stdout = <<NoKeyMsg>>
    /\ (exit # None /\ Count(steps, "credential") = 0) =>
         \/ pc = "exited" /\ exit = Some(2) /\ args = None
         \/ pc = "crashed" /\ LastStep = "configure_logging"

\* C3 witness: no config file, overrides on the command line, and the process
\* has ended at the credential step.
C3_Witness ==
  /\ isfile = Some(FALSE)
  /\ argv # None /\ argv[1].temperature # None /\ argv[1].assistant_name = Some("dev")
  /\ pc = "exited" /\ exit = Some(1) /\ stdout = <<NoKeyMsg>>

C5_OneRecordOneApology ==
  pc = "crashed" =>
    /\ logging.error = 1
    /\ Count(stdout, ApologyMsg) = 1
    /\ Count(handled, "default_exception_handler") = 1

\* C5 amended: an uncaught exception makes the handler call logging.exception,
\* print the apology and then call the original hook, each exactly once and in
\* that order, and the process ends with status 1; the logging call leaves exactly
\* one error record unless logging was configured at level CRITICAL, where it
\* leaves none.  Without an uncaught exception the handler does nothing.
C5_HandlerLogsPrintsDelegates ==
  /\ pc = "crashed" =>
       /\ handled = <<"logging.exception", "print", "default_exception_handler">>
       /\ Count(stdout, ApologyMsg) = 1
       /\ stdout[Len(stdout)] = ApologyMsg
       /\ logging.error = IF logging.level = "CRITICAL" THEN 0 ELSE 1
       /\ exit = Some(1)
  /\ pc # "crashed" =>
       /\ handled = <<>>
       /\ logging.error = 0
       /\ Count(stdout, ApologyMsg) = 0

\* C5 witness: session.loop() raised, the record was written and the original
\* hook called.
C5_Witness ==
  /\ pc = "crashed"
  /\ session # None
  /\ logging.error = 1
  /\ Count(handled, "default_exception_handler") = 1

\* C6: when the resolved name is both a built-in and a custom key, the Assistant
\* owns the custom entry's object: its other fields are the custom entry's, and
\* each of model, temperature and top_p is the CLI value or else the custom
\* entry's, never the built-in entry's.
C6_CustomShadowsBuiltin ==
  (/\ before # None
   /\ args[1].assistant_name \in DOMAIN before[1].builtin \cap DOMAIN before[1].custom) =>
    /\ assistant # None
    /\ assistant[1].config = Ref("custom", args[1].assistant_name)
    /\ AssistantConfigNow.messages = before[1].custom[args[1].assistant_name].messages
    /\ \A f \in OverrideFields :
         AssistantConfigNow[f] =
           IF argv[1][f] # None THEN argv[1][f]
                                ELSE before[1].custom[args[1].assistant_name][f]

\* C6 witness: the config file defines "dev", "dev" was resolved with no
\* override, and every field of the result differs from the built-in "dev".
C6_Witness ==
  /\ assistant # None
  /\ args[1].assistant_name = "dev"
  /\ "dev" \in DOMAIN before[1].custom
  /\ \A f \in OverrideFields : argv[1][f] = None
  /\ \A f \in OverrideFields \cup {"messages"} :
       AssistantConfigNow[f] # DEFAULT_ASSISTANTS["dev"][f]

\* C7: the steps of main begin in the order load config, resolve arguments,
\* configure logging, build the Assistant, validate the credential, run the
\* session: what has run is always an initial part of that order, each step
\* begins with the results of all earlier ones in place, and a run that ends
\* normally has run all six.
C7_StrictOrder ==
  LET order == <<"load_config", "parse_args", "configure_logging", "init_assistant",
                 "credential", "session">>
  IN /\ Len(steps) <= Len(order)
     /\ \A i \in 1..Len(steps) : steps[i] = order[i]
     /\ Count(steps, "parse_args") = 1 => config # None
     /\ Count(steps, "configure_logging") = 1 => args # None
     /\ Count(steps, "init_assistant") = 1 =>
          (args[1].log_file # None => logging.configured)
     /\ Count(steps, "credential") = 1 => (assistant # None /\ before # None)
     /\ Count(steps, "session") = 1 =>
          (api_key = config[1].api_key /\ assistant # None)
     /\ pc \in {"running", "done"} => steps = order

\* C7 witness: a run that went through all six steps and ended normally.
C7_Witness ==
  /\ pc = "done"
  /\ Len(steps) = 6
  /\ logging.configured

\* C8: the markdown flag of the session is the config's markdown setting when
\* --no_markdown was not given, and FALSE when it was.
C8_MarkdownFlag ==
  session # None =>
    session[1].markdown = IF argv[1].no_markdown THEN FALSE ELSE config[1].markdown

\* C8 witness: the config says markdown, --no_markdown was given, and the
\* session was built without markdown.
C8_Witness ==
  /\ session # None
  /\ config[1].markdown
  /\ argv[1].no_markdown
  /\ ~session[1].markdown

\* C9 as stated: after init_assistant every AssistantConfig of the built-in
\* registry and of the config's custom mapping holds the model, temperature and
\* top_p it held before the call.
C9_RegistriesUnchanged ==
  before # None =>
    /\ \A n \in DOMAIN builtin : \A f \in OverrideFields :
         builtin[n][f] = before[1].builtin[n][f]
    /\ \A n \in DOMAIN config[1].assistants : \A f \in OverrideFields :
         config[1].assistants[n][f] = before[1].custom[n][f]

\* C10 as stated: a session exists only with openai.api_key set to the config's
\* non-empty credential; and with the credential absent or empty the process
\* ends with the message printed and status 1, and no session.
C10_CredentialGate ==
  /\ session # None =>
       (api_key = config[1].api_key /\ config[1].api_key \notin {None, Some("")})
  /\ (config # None /\ config[1].api_key \in {None, Some("")} /\ exit # None) =>
       /\ Count(stdout, NoKeyMsg) = 1
       /\ exit = Some(1)
       /\ session = None /\ loops = 0

\* C10 amended: a session exists only with openai.api_key set to the config's
\* non-empty credential; with the credential absent or empty no session is ever
\* built or run, and once the credential step is reached the message is printed
\* and the process exits with status 1.
C10_CredentialGateAtValidation ==
  /\ session # None =>
       (api_key = config[1].api_key /\ config[1].api_key \notin {None, Some("")})
  /\ (config # None /\ config[1].api_key \in {None, Some("")}) =>
       /\ session = None /\ loops = 0 /\ api_key = None
       /\ pc \notin {"session", "running", "done"}
       /\ Count(steps, "credential") = 1 =>
            /\ pc = "exited" /\ exit = Some(1)
            /\ Count(stdout, NoKeyMsg) = 1 /\ stdout[Len(stdout)] = NoKeyMsg

\* C10 witness: the config's credential is the empty string and the process
\* ended at the credential step.
C10_Witness ==
  /\ config # None /\ config[1].api_key = Some("")
  /\ pc = "exited" /\ exit = Some(1)
  /\ stdout = <<NoKeyMsg>>
  /\ session = None

====
